---- MODULE Spec2Model ----
(***************************************************************************)
(* Model of the notebook Opt_and_uvvis.ipynb: the code cells, run top to   *)
(* bottom in one kernel, and the energy-to-wavelength conversion that the  *)
(* "Tasks" cell states (E = hc/lambda).  The electronic-structure package  *)
(* (psi4) is external: each call into it either returns or raises, and     *)
(* what it returns is a nondeterministic choice.                           *)
(***************************************************************************)
EXTENDS Integers, Sequences, FiniteSets

\* ---------------------------------------------------------------- bounds
MaxAtoms == 2            \* atoms in the molecule file
MaxCoord == 2            \* coordinates are 0..MaxCoord (one axis per atom)
MaxSinglePoint == 1      \* single-point energies psi4.energy may report
MaxEnergy == 10          \* excitation energies: 1..MaxEnergy units of 0.05 Eh
MaxLen == 2              \* length of the list of excitation energies

\* ------------------------------------------------------ program constants
NumStates == 10          \* tdscf_excitations(wfn, states=10)
PlanckH == 663           \* h  = 6.63e-34 J s   (mantissa, 1e-36)
SpeedOfLight == 300      \* c  = 3.00e8  m/s    (mantissa, 1e6)
HartreeJ == 218          \* 0.05 Eh = 2.18e-19 J (mantissa, 1e-21)

Symbols == {"C", "H"}
Coords == 0..MaxCoord

VARIABLES
  pc,          \* the next cell to run, "done", or "error" after an exception
  file,        \* contents of molecules/benzene.xyz
  minimum,     \* the geometry that minimises the energy at pbe/6-31g*
  mol_data,    \* the text read from the file
  mol,         \* the psi4 molecule object bound to `mol`
  mol_geo,     \* the numpy array taken from mol.geometry()
  output_file, \* psi4's current output file
  options,     \* psi4's global options
  e,           \* the single-point energy
  wfn,         \* the wavefunction returned by psi4.energy
  res,         \* the result of tdscf_excitations
  tdscf_arg,   \* the wavefunction tdscf_excitations was called with
  printed,     \* what print(res) wrote
  error,       \* the exception that stopped the run
  calls,       \* the calls into psi4 that have returned, in order
  energies,    \* Tasks: the excitation energies to convert
  wavelengths  \* Tasks: the list of wavelengths built from them

wfvars == <<pc, file, minimum, mol_data, mol, mol_geo, output_file, options,
            e, wfn, res, tdscf_arg, printed, error, calls>>
taskvars == <<energies, wavelengths>>
vars == <<wfvars, taskvars>>

\* --------------------------------------------------------------- values
NoMolecule == [id |-> 0, atoms |-> <<>>, geom |-> <<>>]
NoWfn == [id |-> 0, geom |-> <<>>, return_wfn |-> FALSE, save_jk |-> FALSE]
NoRes == [states |-> 0, wfn |-> 0]

Molecules ==
  UNION {{[atoms |-> a, geom |-> g] : a \in [1..n -> Symbols], g \in [1..n -> Coords]}
         : n \in 1..MaxAtoms}

Geometries(n) == [1..n -> Coords]

\* ------------------------------------------------------------ psi4 calls
\* psi4.geometry(mol_data): a new molecule object from the text
psi4_geometry(data) == [id |-> 1, atoms |-> data.atoms, geom |-> data.geom]

\* an optimizer that leaves the molecule it was given alone
psi4_optimize_copy(m, opt) == m

\* psi4.optimize(..., molecule=m) on success: the molecule is modified in
\* place (same object, same atoms), its coordinates become the optimum
psi4_optimize(m, opt) == [m EXCEPT !.geom = opt]

\* psi4.energy(..., return_wfn=r, molecule=m): the wavefunction computed at
\* the molecule's current geometry under the current global options
psi4_energy(m, r, opts) ==
  [id |-> m.id + 1, geom |-> m.geom, return_wfn |-> r, save_jk |-> opts.save_jk]

\* the intermediate quantities the TDSCF step needs were kept
ValidHandle(w) == w.id # 0 /\ w.return_wfn /\ w.save_jk

\* ---------------------------------------------------------------- cells
Raise(exc) == /\ pc' = "error"
              /\ error' = exc

CellImport ==
  /\ pc = "import"
  /\ pc' = "read"
  /\ UNCHANGED <<file, minimum, mol_data, mol, mol_geo, output_file, options,
                 e, wfn, res, tdscf_arg, printed, error, calls, taskvars>>

CellRead ==
  /\ pc = "read"
  /\ mol_data' = file
  /\ mol' = psi4_geometry(file)
  /\ calls' = Append(calls, "geometry")
  /\ pc' = "geometry"
  /\ UNCHANGED <<file, minimum, mol_geo, output_file, options,
                 e, wfn, res, tdscf_arg, printed, error, taskvars>>

CellGeometry ==
  /\ pc = "geometry"
  /\ mol_geo' = mol.geom
  /\ pc' = "distance1"
  /\ UNCHANGED <<file, minimum, mol_data, mol, output_file, options,
                 e, wfn, res, tdscf_arg, printed, error, calls, taskvars>>

CellDistance1 ==
  /\ pc = "distance1"
  /\ pc' = "optimize"
  /\ UNCHANGED <<file, minimum, mol_data, mol, mol_geo, output_file, options,
                 e, wfn, res, tdscf_arg, printed, error, calls, taskvars>>

OptimizeReturns ==
  /\ mol' = psi4_optimize(mol, minimum)
  /\ calls' = Append(calls, "optimize")
  /\ pc' = "distance2"
  /\ UNCHANGED error

\* the optimization raised: the molecule, modified in place while the
\* optimizer was stepping, is left at whatever geometry it had reached
OptimizeRaises ==
  /\ \E g \in Geometries(Len(mol.atoms)) : mol' = [mol EXCEPT !.geom = g]
  /\ Raise("optimize")
  /\ UNCHANGED calls

CellOptimize ==
  /\ pc = "optimize"
  /\ output_file' = "optimize_benzene.txt"
  /\ \/ OptimizeReturns
     \/ OptimizeRaises
  /\ UNCHANGED <<file, minimum, mol_data, mol_geo, options,
                 e, wfn, res, tdscf_arg, printed, taskvars>>

CellDistance2 ==
  /\ pc = "distance2"
  /\ pc' = "set_options"
  /\ UNCHANGED <<file, minimum, mol_data, mol, mol_geo, output_file, options,
                 e, wfn, res, tdscf_arg, printed, error, calls, taskvars>>

\* the options cell without its effect on psi4's options
CellSetOptions_skip ==
  /\ pc = "set_options"
  /\ calls' = Append(calls, "set_options")
  /\ pc' = "excitations"
  /\ UNCHANGED <<file, minimum, mol_data, mol, mol_geo, output_file, options,
                 e, wfn, res, tdscf_arg, printed, error, taskvars>>

CellSetOptions ==
  /\ pc = "set_options"
  /\ options' = [options EXCEPT !.save_jk = TRUE]
  /\ calls' = Append(calls, "set_options")
  /\ pc' = "excitations"
  /\ UNCHANGED <<file, minimum, mol_data, mol, mol_geo, output_file,
                 e, wfn, res, tdscf_arg, printed, error, taskvars>>

EnergyRaises ==
  /\ Raise("energy")
  /\ UNCHANGED <<e, wfn, res, tdscf_arg, calls>>

TdscfRaises ==
  /\ \E en \in 0..MaxSinglePoint : e' = en
  /\ wfn' = psi4_energy(mol, TRUE, options)
  /\ tdscf_arg' = wfn'.id
  /\ calls' = Append(calls, "energy")
  /\ Raise(IF ValidHandle(wfn') THEN "tdscf" ELSE "InvalidHandle")
  /\ UNCHANGED res

TdscfReturns ==
  /\ \E en \in 0..MaxSinglePoint : e' = en
  /\ wfn' = psi4_energy(mol, TRUE, options)
  /\ tdscf_arg' = wfn'.id
  /\ ValidHandle(wfn')
  /\ res' = [states |-> NumStates, wfn |-> wfn'.id]
  /\ calls' = Append(Append(calls, "energy"), "tdscf_excitations")
  /\ pc' = "print"
  /\ UNCHANGED error

CellExcitations ==
  /\ pc = "excitations"
  /\ output_file' = "benzene_excitations.txt"
  /\ \/ EnergyRaises
     \/ TdscfRaises
     \/ TdscfReturns
  /\ UNCHANGED <<file, minimum, mol_data, mol, mol_geo, options, printed, taskvars>>

CellPrint ==
  /\ pc = "print"
  /\ printed' = res
  /\ pc' = "last"
  /\ UNCHANGED <<file, minimum, mol_data, mol, mol_geo, output_file, options,
                 e, wfn, res, tdscf_arg, error, calls, taskvars>>

CellLast ==
  /\ pc = "last"
  /\ pc' = "done"
  /\ UNCHANGED <<file, minimum, mol_data, mol, mol_geo, output_file, options,
                 e, wfn, res, tdscf_arg, printed, error, calls, taskvars>>

\* the kernel right after start: nothing is bound yet
Fresh ==
  /\ pc = "import"
  /\ mol_data = NoMolecule
  /\ mol = NoMolecule
  /\ mol_geo = <<>>
  /\ output_file = "stdout"
  /\ options = [save_jk |-> FALSE]
  /\ e = 0
  /\ wfn = NoWfn
  /\ res = NoRes
  /\ tdscf_arg = 0
  /\ printed = NoRes
  /\ error = "none"
  /\ calls = <<>>

Init ==
  /\ Fresh
  /\ file \in Molecules
  /\ minimum \in Geometries(Len(file.atoms))
  /\ energies = <<>>
  /\ wavelengths = <<>>

Next ==
  \/ CellImport
  \/ CellRead
  \/ CellGeometry
  \/ CellDistance1
  \/ CellOptimize
  \/ CellDistance2
  \/ CellSetOptions
  \/ CellExcitations
  \/ CellPrint
  \/ CellLast

Spec == Init /\ [][Next]_vars

\* ------------------------------------------------ Tasks: E = hc / lambda
\* a wavelength in nanometres, kept exact as the fraction num / den
\* "convert everything to SI units (hartrees to Joules) then use Planck's
\*  constant and the speed of light in SI units"
Joules(E) == E * HartreeJ

\* the conversion with the energy multiplied in instead of divided out
hartree_to_nm_times(E) == [num |-> PlanckH * SpeedOfLight * Joules(E), den |-> 1]

hartree_to_nm(E) == [num |-> PlanckH * SpeedOfLight, den |-> Joules(E)]

\* a < b for fractions with positive denominators
Less(a, b) == a.num * b.den < b.num * a.den

Positive(a) == a.num > 0 /\ a.den > 0

\* the wavelength rounded down to whole nanometres
WholeNm(a) == a.num \div a.den

\* "create a list of wavelengths from these energies": one more energy of
\* the list is converted and appended
ConvertNext ==
  /\ Len(wavelengths) < Len(energies)
  /\ wavelengths' = Append(wavelengths, hartree_to_nm(energies[Len(wavelengths) + 1]))
  /\ UNCHANGED <<wfvars, energies>>

InitConv ==
  /\ Fresh
  /\ file = [atoms |-> <<"C">>, geom |-> <<0>>]
  /\ minimum = <<0>>
  /\ energies \in UNION {[1..n -> 1..MaxEnergy] : n \in 1..MaxLen}
  /\ wavelengths = <<>>

NextConv == ConvertNext

SpecConv == InitConv /\ [][NextConv]_vars

\* ----------------------------------------------------------- properties
Before == {"import", "read", "geometry", "distance1", "optimize"}

\* psi4.optimize has been called / has returned
OptimizeCalled == pc \notin Before
OptimizeReturned == OptimizeCalled /\ error # "optimize"

\* position of a call in the list of returned calls, 0 when absent
Pos(name) ==
  IF \E i \in 1..Len(calls) : calls[i] = name
  THEN CHOOSE i \in 1..Len(calls) : calls[i] = name
  ELSE 0

\* C2 as stated: after optimize (returned or raised) the molecule the caller
\* passed in has the atoms and the coordinates it had before the call
C2_CallerMoleculeUntouched ==
  OptimizeCalled => (mol.atoms = file.atoms /\ mol.geom = mol_geo)

\* C2 amended: optimize modifies the caller's molecule in place.  Whatever
\* the outcome, `mol` stays the same object with the same atoms; once
\* optimize has returned its coordinates are the optimized geometry, and the
\* single-point wavefunction computed afterwards is at that geometry.
C2_OptimizedInPlace ==
  /\ OptimizeCalled => (mol.id = 1 /\ mol.atoms = file.atoms)
  /\ OptimizeReturned => mol.geom = minimum
  /\ wfn.id # 0 => wfn.geom = minimum

C2_Witness ==
  /\ pc = "done"
  /\ mol.geom # mol_geo
  /\ mol.geom = minimum
  /\ wfn.geom = minimum

\* C3: tdscf_excitations is invoked only after optimize has returned, then
\* save_jk has been set, then the single point with return_wfn=True on the
\* optimized molecule has returned; it is passed exactly the wavefunction
\* that single point returned; the run never stops on an invalid handle.
C3_ExcitationAfterRetainedSinglePoint ==
  /\ error # "InvalidHandle"
  /\ tdscf_arg # 0 =>
       /\ 0 < Pos("optimize")
       /\ Pos("optimize") < Pos("set_options")
       /\ Pos("set_options") < Pos("energy")
       /\ options.save_jk
       /\ ValidHandle(wfn)
       /\ wfn.geom = mol.geom
       /\ mol.geom = minimum
       /\ tdscf_arg = wfn.id
  /\ res # NoRes => (res.wfn = wfn.id /\ Pos("energy") < Pos("tdscf_excitations"))

C3_Witness ==
  /\ pc = "done"
  /\ tdscf_arg = wfn.id
  /\ res.states = NumStates
  /\ printed = res
  /\ calls = <<"geometry", "optimize", "set_options", "energy", "tdscf_excitations">>

====
